---- MODULE Spec2Model ----
(***************************************************************************)
(* A model of release_tools/changelog.py: the validation callbacks of the  *)
(* `changelog` command, the Git root resolution, the derivation of an      *)
(* entry's file name and the write of the entry under                       *)
(* <root>/releases/unreleased.                                              *)
(*                                                                         *)
(* Python strings are sequences of one-character strings; a path is the    *)
(* sequence of its components, absolute when its first component is "/".   *)
(***************************************************************************)
EXTENDS Integers, Sequences, FiniteSets, TLC

VARIABLES inv, dirs, files, call, ret

vars == <<inv, dirs, files, call, ret>>

(***************************************************************************)
(* Bounds of the model.                                                    *)
(***************************************************************************)
\* longest raw title given to validate_title
MaxTitleLen == 3
\* longest run of padding characters in a title given to determine_filepath
MaxPad == 97
\* category indexes tried are -MaxIndex .. MaxIndex + 8
MaxIndex == 3

(***************************************************************************)
(* Characters and str methods.                                             *)
(***************************************************************************)
LowerLetters ==
    <<"a","b","c","d","e","f","g","h","i","j","k","l","m",
      "n","o","p","q","r","s","t","u","v","w","x","y","z">>

UpperLetters ==
    <<"A","B","C","D","E","F","G","H","I","J","K","L","M",
      "N","O","P","Q","R","S","T","U","V","W","X","Y","Z">>

Digits == <<"0","1","2","3","4","5","6","7","8","9">>

\* the characters str.strip() and int() treat as white space
Whitespace == {" ", "\t", "\n", "\r"}

Range(s) == {s[i] : i \in DOMAIN s}

IndexOf(seq, c) == CHOOSE i \in DOMAIN seq : seq[i] = c

\* str.upper() of one character
UpperChar(c) ==
    IF c \in Range(LowerLetters) THEN UpperLetters[IndexOf(LowerLetters, c)] ELSE c

\* str.lower() of one character
LowerChar(c) ==
    IF c \in Range(UpperLetters) THEN LowerLetters[IndexOf(UpperLetters, c)] ELSE c

\* str.upper()
upper(s) == [i \in DOMAIN s |-> UpperChar(s[i])]

\* str.lower()
lower(s) == [i \in DOMAIN s |-> LowerChar(s[i])]

\* str.replace(old, new) for one-character old and new
replace(s, old, new) == [i \in DOMAIN s |-> IF s[i] = old THEN new ELSE s[i]]

\* s[0:n]
slice(s, n) == IF n <= 0 THEN <<>> ELSE SubSeq(s, 1, IF n < Len(s) THEN n ELSE Len(s))

RECURSIVE lstrip(_, _)
lstrip(s, chars) ==
    IF s # <<>> /\ Head(s) \in chars THEN lstrip(Tail(s), chars) ELSE s

RECURSIVE rstrip(_, _)
rstrip(s, chars) ==
    IF s # <<>> /\ s[Len(s)] \in chars
    THEN rstrip(SubSeq(s, 1, Len(s) - 1), chars)
    ELSE s

\* str.strip(chars)
strip(s, chars) == rstrip(lstrip(s, chars), chars)

\* the value of a string of decimal digits
RECURSIVE DigitsValue(_)
DigitsValue(s) ==
    IF s = <<>> THEN 0
    ELSE 10 * DigitsValue(SubSeq(s, 1, Len(s) - 1)) + (IndexOf(Digits, s[Len(s)]) - 1)

\* int(value): white space around, an optional sign, then decimal digits;
\* anything else is a ValueError
int(value) ==
    LET s == strip(value, Whitespace)
        signed == s # <<>> /\ s[1] \in {"+", "-"}
        body == IF signed THEN Tail(s) ELSE s
    IN  IF body # <<>> /\ Range(body) \subseteq Range(Digits)
        THEN [ok |-> TRUE,
              val |-> IF signed /\ s[1] = "-" THEN 0 - DigitsValue(body) ELSE DigitsValue(body)]
        ELSE [ok |-> FALSE, val |-> 0]

\* str(n) for an integer n
RECURSIVE NatStr(_)
NatStr(n) == IF n < 10 THEN <<Digits[n + 1]>> ELSE NatStr(n \div 10) \o <<Digits[(n % 10) + 1]>>

IntStr(n) == IF n < 0 THEN <<"-">> \o NatStr(0 - n) ELSE NatStr(n)

(***************************************************************************)
(* Results of a call: a returned value or a raised exception.              *)
(***************************************************************************)
Return(v) == [ok |-> TRUE, value |-> v, error |-> "", msg |-> <<>>]

Raise(e, m) == [ok |-> FALSE, value |-> <<>>, error |-> e, msg |-> m]

(***************************************************************************)
(* Module constants.                                                       *)
(***************************************************************************)
YAML_FILE_EXTENSION == <<".", "y", "m", "l">>

\* GNU tar has a 99 character limit
MAX_FILENAME_LENGTH == 99 - Len(YAML_FILE_EXTENSION)

(***************************************************************************)
(* class CategoryChange(enum.Enum): the members in definition order, each  *)
(* with its name, its value and the category and title attributes.         *)
(***************************************************************************)
Member(n, v, c, t) == [name |-> n, value |-> v, category |-> c, title |-> t]

CategoryChange ==
    << Member(<<"A","D","D","E","D">>, 1, <<"a","d","d","e","d">>, "New feature"),
       Member(<<"F","I","X","E","D">>, 2, <<"f","i","x","e","d">>, "Bug fix"),
       Member(<<"C","H","A","N","G","E","D">>, 3, <<"c","h","a","n","g","e","d">>,
              "Feature change"),
       Member(<<"D","E","P","R","E","C","A","T","E","D">>, 4,
              <<"d","e","p","r","e","c","a","t","e","d">>, "New deprecation"),
       Member(<<"R","E","M","O","V","E","D">>, 5, <<"r","e","m","o","v","e","d">>,
              "Feature removal"),
       Member(<<"S","E","C","U","R","I","T","Y">>, 6, <<"s","e","c","u","r","i","t","y">>,
              "Security fix"),
       Member(<<"P","E","R","F","O","R","M","A","N","C","E">>, 7,
              <<"p","e","r","f","o","r","m","a","n","c","e">>, "Performance improvement"),
       Member(<<"O","T","H","E","R">>, 8, <<"o","t","h","e","r">>, "Other") >>

\* CategoryChange.values()
values == [i \in DOMAIN CategoryChange |-> CategoryChange[i].category]

\* CategoryChange[name]: the member of that name, or KeyError
MemberByName(name) ==
    IF \E i \in DOMAIN CategoryChange : CategoryChange[i].name = name
    THEN Return(CategoryChange[CHOOSE i \in DOMAIN CategoryChange :
                                   CategoryChange[i].name = name])
    ELSE Raise("KeyError", <<name>>)

\* a bug: the index taken as a zero-based position in the enumeration
MemberByValue_zero_based(v) ==
    IF 0 <= v /\ v < Len(CategoryChange)
    THEN Return(CategoryChange[v + 1])
    ELSE Raise("ValueError", <<v>>)

\* CategoryChange(value): the member of that value, or ValueError
MemberByValue(v) ==
    IF \E i \in DOMAIN CategoryChange : CategoryChange[i].value = v
    THEN Return(CategoryChange[CHOOSE i \in DOMAIN CategoryChange :
                                   CategoryChange[i].value = v])
    ELSE Raise("ValueError", <<v>>)

(***************************************************************************)
(* The option callbacks.                                                   *)
(***************************************************************************)
\* the characters validate_title strips: "\n\r "
TitleStripChars == {"\n", "\r", " "}

validate_title(value) ==
    LET stripped == strip(value, TitleStripChars)
    IN  IF stripped = <<>>
        THEN Raise("BadParameter", <<"title cannot be empty">>)
        ELSE Return(stripped)

validate_category(value) ==
    LET index == int(value)
    IN  IF ~index.ok
        THEN \* the value is not an index: is it the name of a member?
             IF MemberByName(upper(value)).ok
             THEN Return(value)
             ELSE Raise("BadParameter", <<"valid options are ", values>>)
        ELSE \* is the index in range?
             IF MemberByValue(index.val).ok
             THEN Return(MemberByValue(index.val).value.category)
             ELSE Raise("BadParameter",
                        <<"please select an index between 1 and ", Len(CategoryChange)>>)

(***************************************************************************)
(* Paths.                                                                  *)
(***************************************************************************)
IsAbs(path) == path # <<>> /\ path[1] = "/"

\* os.path.join(a, b): b alone when it is absolute or a is empty
join(a, b) == IF IsAbs(b) THEN b ELSE a \o b

\* the directory a path names for a process whose working directory is cwd
Resolve(cwd, path) == IF IsAbs(path) THEN path ELSE cwd \o path

\* a bug: the title cut at MAX_FILENAME_LENGTH instead of one below it
entry_filename_cut_at_limit(title) ==
    slice(lower(replace(title, " ", "-")), MAX_FILENAME_LENGTH) \o YAML_FILE_EXTENSION

\* the file name of an entry: the first two lines of determine_filepath
entry_filename(title) ==
    slice(lower(replace(title, " ", "-")), MAX_FILENAME_LENGTH - 1) \o YAML_FILE_EXTENSION

\* os.path.join(dirpath, filename), for a file name that holds no separator
determine_filepath(dirpath, title) ==
    [dir |-> dirpath, name |-> entry_filename(title)]

\* os.path.basename(filepath)
basename(filepath) == filepath.name

(***************************************************************************)
(* GitHandler.  The two git queries print a path or nothing; root_path is  *)
(* given what they print.  basepath is bound only in the branch taken when *)
(* the superproject query printed nothing, so `return basepath` raises     *)
(* UnboundLocalError otherwise.                                            *)
(***************************************************************************)
root_path(submodule_root, toplevel) ==
    LET path_ == submodule_root
    IN  IF path_ = <<>>
        THEN Return(toplevel)
        ELSE Raise("UnboundLocalError", <<"basepath">>)

(***************************************************************************)
(* The functions on their own: a call of one of them on an input drawn     *)
(* from a bounded set, and its return.                                     *)
(***************************************************************************)
Procs == {1, 2}

NoneContent == [kind |-> "none", doc |-> <<>>]

NoFiles == [f \in {} |-> NoneContent]

NoPath == [dir |-> <<>>, name |-> <<>>]

Idle ==
    [pc |-> "idle", cwd |-> <<>>, title |-> <<>>, category |-> <<>>,
     dry_run |-> FALSE, overwrite |-> FALSE, editor |-> FALSE,
     dirpath |-> <<>>, confirm |-> "", content |-> NoneContent,
     filepath |-> NoPath, found |-> FALSE, exit_code |-> 0, error |-> "", msg |-> <<>>,
     fs0 |-> [dirs |-> {}, files |-> NoFiles]]

\* the directories every run starts with
BaseDirs ==
    { <<"/">>, <<"/", "repo">>, <<"/", "super">>, <<"/", "super", "sub">>, <<"/", "tmp">> }

TitleAlphabet == {" ", "\n", "\r", "\t", "a", "B"}

TitleInputs == UNION { [1..n -> TitleAlphabet] : n \in 0..MaxTitleLen }

Pad(n) == [i \in 1..n |-> "x"]

LongTitleInputs ==
    { pre \o Pad(n) \o suf :
        pre \in { <<>>, <<"A", " ">> }, n \in 0..MaxPad, suf \in { <<>>, <<" ", "B">> } }

Capitalize(s) == [i \in DOMAIN s |-> IF i = 1 THEN UpperChar(s[i]) ELSE s[i]]

CategoryNameInputs ==
    { values[i] : i \in DOMAIN values }
        \cup { upper(values[i]) : i \in DOMAIN values }
        \cup { Capitalize(values[i]) : i \in DOMAIN values }
        \cup { <<>>, <<"b","o","g","u","s">>, <<"i","n","v","a","l","i","d">>,
               <<"a","d","d","e","d"," ">>, <<"B","u","g"," ","f","i","x">>, <<"-">> }

IndexInputs == (0 - MaxIndex) .. (Len(CategoryChange) + MaxIndex)

CategoryIndexInputs ==
    { IntStr(n) : n \in IndexInputs }
        \cup { <<"4","2">>, <<"+","2">>, <<" ","3","\n">>, <<"0","0","7">>, <<"0","9">> }

CategoryInputs == CategoryNameInputs \cup CategoryIndexInputs

RootInputs ==
    { <<s, r>> : s \in { <<>>, <<"/", "super">> },
                 r \in { <<>>, <<"/", "repo">>, <<"/", "super", "sub">> } }

DirInputs == { <<"/", "repo", "releases", "unreleased">>, <<"releases", "unreleased">> }

NoCall == [fn |-> "none", arg |-> <<>>]

Returned == ret # <<>>

Result == ret[1]

FnInit ==
    /\ inv = [p \in Procs |-> Idle]
    /\ dirs = BaseDirs
    /\ files = NoFiles
    /\ ret = <<>>
    /\ \/ \E t \in TitleInputs : call = [fn |-> "validate_title", arg |-> t]
       \/ \E c \in CategoryInputs : call = [fn |-> "validate_category", arg |-> c]
       \/ \E d \in DirInputs, t \in LongTitleInputs :
             call = [fn |-> "determine_filepath", arg |-> <<d, t>>]
       \/ \E a \in RootInputs : call = [fn |-> "root_path", arg |-> a]

CallValidateTitle ==
    /\ call.fn = "validate_title" /\ ~Returned
    /\ ret' = <<validate_title(call.arg)>>
    /\ UNCHANGED <<inv, dirs, files, call>>

CallValidateCategory ==
    /\ call.fn = "validate_category" /\ ~Returned
    /\ ret' = <<validate_category(call.arg)>>
    /\ UNCHANGED <<inv, dirs, files, call>>

CallDetermineFilepath ==
    /\ call.fn = "determine_filepath" /\ ~Returned
    /\ ret' = <<Return(determine_filepath(call.arg[1], call.arg[2]))>>
    /\ UNCHANGED <<inv, dirs, files, call>>

CallRootPath ==
    /\ call.fn = "root_path" /\ ~Returned
    /\ ret' = <<root_path(call.arg[1], call.arg[2])>>
    /\ UNCHANGED <<inv, dirs, files, call>>

FnNext ==
    \/ CallValidateTitle
    \/ CallValidateCategory
    \/ CallDetermineFilepath
    \/ CallRootPath

SpecFn == FnInit /\ [][FnNext]_vars

(***************************************************************************)
(* The command.  One run of `changelog` is a process p; inv[p] holds its   *)
(* position (pc), its parameters and locals, and how it ended.  dirs is    *)
(* the set of directories that exist, files maps each existing entry file  *)
(* (directory and name) to its content.  confirm is the answer to          *)
(* "Do you want to create it?" ("" when the question was not asked);       *)
(* found records whether open() found the file already there; fs0 is the  *)
(* file system the run found when it started.                              *)
(***************************************************************************)
Terminal ==
    { "USAGE_ERROR", "CRASHED", "ABORTED", "MKDIR_FAILED",
      "CONTENT_REJECTED", "WRITE_REJECTED", "PRINTED", "WRITTEN" }

\* the working directories a run starts in: a repository, a submodule of a
\* superproject, and a directory outside any repository
Cwds == { <<"/", "repo">>, <<"/", "super", "sub">>, <<"/", "tmp">> }

\* git rev-parse --show-superproject-working-tree, stripped of "\n"
\* (git prints nothing outside a work tree, and for a work tree that is no
\* submodule)
get_submodule_root_path(cwd) ==
    IF cwd = <<"/", "super", "sub">> THEN <<"/", "super">> ELSE <<>>

\* git rev-parse --show-toplevel, stripped of "\n"
get_root_path(cwd) ==
    IF cwd \in { <<"/", "repo">>, <<"/", "super", "sub">> } THEN cwd ELSE <<>>

determine_changelog_entries_dirpath(cwd) ==
    LET basepath == root_path(get_submodule_root_path(cwd), get_root_path(cwd))
    IN  IF basepath.ok
        THEN Return(join(join(basepath.value, <<"releases">>), <<"unreleased">>))
        ELSE basepath

\* os.path.exists(path) for a process in cwd
exists(cwd, path) == Resolve(cwd, path) \in dirs

\* the directories os.makedirs(path) leaves in place
makedirs(cwd, path) ==
    dirs \cup { SubSeq(Resolve(cwd, path), 1, n) : n \in 1..Len(Resolve(cwd, path)) }

Text(doc) == [kind |-> "text", doc |-> doc]

Null == <<"n", "u", "l", "l">>

\* yaml.dump(ChangelogEntry(title, category, author=None, pr=None).to_dict(),
\*           sort_keys=False, explicit_start=True)
yaml_dump(title, category) ==
    Text(<< <<"title", title>>, <<"category", category>>, <<"author", Null>>,
            <<"pull_request", Null>>, <<"notes", Null>> >>)

\* what click.edit(stream) can return: None (nothing saved), an empty text,
\* or the text with the user's changes
edit(stream) ==
    { NoneContent, Text(<<>>), Text(Append(stream.doc, <<"notes", <<"e", "d">>>>)) }

\* a bug: only an absent content is refused, an empty text is written
falsy_none_only(content) == content.kind = "none"

\* `not content`
falsy(content) == content.kind = "none" \/ content.doc = <<>>

\* a bug: the file is always opened for writing, truncating what exists
open_mode_always_w(overwrite) == "w"

\* a bug: the file is always created exclusively, --overwrite ignored
open_mode_always_x(overwrite) == "x"

open_mode(overwrite) == IF overwrite THEN "w" ELSE "x"

\* the file a path names for a process in cwd
FileKey(cwd, filepath) == [dir |-> Resolve(cwd, filepath.dir), name |-> filepath.name]

Put(fs, key, content) ==
    [f \in DOMAIN fs \cup {key} |-> IF f = key THEN content ELSE fs[f]]

\* a write of doc at offset 0 of a file holding old
Overlay(old, doc) == doc \o SubSeq(old, Len(doc) + 1, Len(old))

RawTitles == { <<"a", " ", "b">>, <<" ", "A", " ", "b", "\n">>, <<" ", "\n">> }

RawCategories == { <<"1">>, <<"F", "I", "X", "E", "D">>, <<"4", "2">> }

Ended(r, pc, code, error, msg) ==
    [r EXCEPT !.pc = pc, !.exit_code = code, !.error = error, !.msg = msg]

\* click parses the options and runs the callbacks, --title first; a
\* BadParameter ends the run with exit code 2 before changelog() is called
Start(p) ==
    /\ inv[p].pc \in {"idle"} \cup Terminal
    /\ \E cwd \in Cwds, t \in RawTitles :
          LET vt == validate_title(t)
              r  == [Idle EXCEPT !.cwd = cwd,
                                 !.fs0 = [dirs |-> dirs, files |-> files]]
          IN  IF ~vt.ok
              THEN inv' = [inv EXCEPT ![p] =
                              Ended(r, "USAGE_ERROR", 2, vt.error, vt.msg)]
              ELSE \E c \in RawCategories :
                      LET vc == validate_category(c)
                      IN  IF ~vc.ok
                          THEN inv' = [inv EXCEPT ![p] =
                                          Ended(r, "USAGE_ERROR", 2, vc.error, vc.msg)]
                          ELSE \E dry_run \in BOOLEAN, overwrite \in BOOLEAN,
                                  editor \in BOOLEAN :
                                  inv' = [inv EXCEPT ![p] =
                                      [r EXCEPT !.pc = "START",
                                                !.title = vt.value,
                                                !.category = vc.value,
                                                !.dry_run = dry_run,
                                                !.overwrite = overwrite,
                                                !.editor = editor]]
    /\ UNCHANGED <<dirs, files, call, ret>>

\* check_changelog_entries_dir, first line
ResolveDir(p) ==
    /\ inv[p].pc = "START"
    /\ LET dirpath == determine_changelog_entries_dirpath(inv[p].cwd)
       IN  inv' = [inv EXCEPT ![p] =
               IF dirpath.ok
               THEN [inv[p] EXCEPT !.pc = "DIRECTORY_RESOLVED", !.dirpath = dirpath.value]
               ELSE Ended(inv[p], "CRASHED", 1, dirpath.error, dirpath.msg)]
    /\ UNCHANGED <<dirs, files, call, ret>>

\* a bug: the directory is created before the user is asked
CheckDir_create_first(p) ==
    /\ inv[p].pc = "DIRECTORY_RESOLVED"
    /\ IF exists(inv[p].cwd, inv[p].dirpath)
       THEN /\ inv' = [inv EXCEPT ![p].pc = "DIRECTORY_CONFIRMED"]
            /\ UNCHANGED dirs
       ELSE /\ dirs' = makedirs(inv[p].cwd, inv[p].dirpath)
            /\ \E confirm \in BOOLEAN :
                  IF ~confirm
                  THEN inv' = [inv EXCEPT ![p] =
                          Ended([inv[p] EXCEPT !.confirm = "n"], "ABORTED", 1,
                                "ClickException",
                                <<"Changelog entries directory is needed to continue.">>)]
                  ELSE inv' = [inv EXCEPT ![p].pc = "DIRECTORY_CONFIRMED",
                                          ![p].confirm = "y"]
    /\ UNCHANGED <<files, call, ret>>

\* check_changelog_entries_dir, the rest
CheckDir(p) ==
    /\ inv[p].pc = "DIRECTORY_RESOLVED"
    /\ IF exists(inv[p].cwd, inv[p].dirpath)
       THEN /\ inv' = [inv EXCEPT ![p].pc = "DIRECTORY_CONFIRMED"]
            /\ UNCHANGED dirs
       ELSE \E confirm \in BOOLEAN, oserror \in BOOLEAN :
               IF ~confirm
               THEN /\ inv' = [inv EXCEPT ![p] =
                          Ended([inv[p] EXCEPT !.confirm = "n"], "ABORTED", 1, "ClickException",
                                <<"Changelog entries directory is needed to continue.">>)]
                    /\ UNCHANGED dirs
               ELSE IF oserror
               THEN /\ inv' = [inv EXCEPT ![p] =
                          Ended([inv[p] EXCEPT !.confirm = "y"], "MKDIR_FAILED", 1,
                                "ClickException", <<"Unable to create directory. ">>)]
                    /\ UNCHANGED dirs
               ELSE /\ inv' = [inv EXCEPT ![p].pc = "DIRECTORY_CONFIRMED",
                                          ![p].confirm = "y"]
                    /\ dirs' = makedirs(inv[p].cwd, inv[p].dirpath)
    /\ UNCHANGED <<files, call, ret>>

\* create_changelog_entry_content
CreateContent(p) ==
    /\ inv[p].pc = "DIRECTORY_CONFIRMED"
    /\ LET stream == yaml_dump(inv[p].title, inv[p].category)
       IN  \E content \in (IF inv[p].editor THEN edit(stream) ELSE {stream}) :
               inv' = [inv EXCEPT ![p].pc = "CONTENT_CREATED", ![p].content = content]
    /\ UNCHANGED <<dirs, files, call, ret>>

\* a bug: the write is not in the else branch, so a dry run prints the
\* content and goes on to write it
Echo_then_write(p) ==
    /\ inv[p].pc = "CONTENT_CREATED"
    /\ inv[p].dry_run
    /\ inv' = [inv EXCEPT ![p] =
           IF falsy(inv[p].content)
           THEN Ended(inv[p], "CONTENT_REJECTED", 1, "ClickException",
                      <<"Aborting due to empty entry content">>)
           ELSE [inv[p] EXCEPT !.pc = "CONTENT_VALIDATED",
                               !.filepath = determine_filepath(inv[p].dirpath,
                                                               inv[p].title)]]
    /\ UNCHANGED <<dirs, files, call, ret>>

\* --dry-run: the content is printed and the run ends
Echo(p) ==
    /\ inv[p].pc = "CONTENT_CREATED"
    /\ inv[p].dry_run
    /\ inv' = [inv EXCEPT ![p] = Ended(inv[p], "PRINTED", 0, "", <<>>)]
    /\ UNCHANGED <<dirs, files, call, ret>>

\* write_changelog_entry up to determine_filepath
WriteCheck(p) ==
    /\ inv[p].pc = "CONTENT_CREATED"
    /\ ~inv[p].dry_run
    /\ inv' = [inv EXCEPT ![p] =
           IF falsy(inv[p].content)
           THEN Ended(inv[p], "CONTENT_REJECTED", 1, "ClickException",
                      <<"Aborting due to empty entry content">>)
           ELSE [inv[p] EXCEPT !.pc = "CONTENT_VALIDATED",
                               !.filepath = determine_filepath(inv[p].dirpath,
                                                               inv[p].title)]]
    /\ UNCHANGED <<dirs, files, call, ret>>

\* open(filepath, mode): 'x' creates the file or raises FileExistsError, 'w'
\* creates or truncates it
WriteOpen(p) ==
    /\ inv[p].pc = "CONTENT_VALIDATED"
    /\ LET key == FileKey(inv[p].cwd, inv[p].filepath)
           mode == open_mode(inv[p].overwrite)
       IN  IF key.dir \notin dirs
           THEN /\ inv' = [inv EXCEPT ![p] =
                      Ended(inv[p], "CRASHED", 1, "FileNotFoundError", <<>>)]
                /\ UNCHANGED files
           ELSE IF mode = "x" /\ key \in DOMAIN files
           THEN /\ inv' = [inv EXCEPT ![p] =
                      Ended(inv[p], "WRITE_REJECTED", 1, "ClickException",
                            <<"Changelog entry ", basename(inv[p].filepath),
                              " already exists. Use '--overwrite' to replace it.">>)]
                /\ UNCHANGED files
           ELSE /\ inv' = [inv EXCEPT ![p].pc = "FILE_OPENED",
                                      ![p].found = key \in DOMAIN files]
                /\ files' = Put(files, key, Text(<<>>))
    /\ UNCHANGED <<dirs, call, ret>>

\* f.write(content) and the end of the with block
WriteClose(p) ==
    /\ inv[p].pc = "FILE_OPENED"
    /\ LET key == FileKey(inv[p].cwd, inv[p].filepath)
       IN  files' = Put(files, key,
                        Text(Overlay(IF key \in DOMAIN files THEN files[key].doc ELSE <<>>,
                                     inv[p].content.doc)))
    /\ inv' = [inv EXCEPT ![p] = Ended(inv[p], "WRITTEN", 0, "", <<>>)]
    /\ UNCHANGED <<dirs, call, ret>>

Step(p) ==
    \/ Start(p)
    \/ ResolveDir(p)
    \/ CheckDir(p)
    \/ CreateContent(p)
    \/ Echo(p)
    \/ WriteCheck(p)
    \/ WriteOpen(p)
    \/ WriteClose(p)

\* the entries directory of /repo exists or not when the first run starts
Init ==
    /\ inv = [p \in Procs |-> Idle]
    /\ dirs \in { BaseDirs,
                  BaseDirs \cup { <<"/", "repo", "releases">>,
                                  <<"/", "repo", "releases", "unreleased">> } }
    /\ files = NoFiles
    /\ call = NoCall
    /\ ret = <<>>

\* runs follow one another, each a process run of its own: process 1 starts
\* again once it has ended, process 2 stays idle
Next == Step(1)

Spec == Init /\ [][Next]_vars


(***************************************************************************)
(* Properties of the command, under Spec.                                  *)
(***************************************************************************)
\* the file a run's title names: determine_filepath, resolved
Target(p) == FileKey(inv[p].cwd, determine_filepath(inv[p].dirpath, inv[p].title))

ExistsMsg(p) ==
    <<"Changelog entry ", entry_filename(inv[p].title),
      " already exists. Use '--overwrite' to replace it.">>

\* C1: a write without overwrite to a path that holds an entry fails with the
\* "already exists" error and leaves every file, that entry included, as it
\* was: nothing is truncated or partially overwritten.
C1_ExistingEntryKept ==
    [][\A p \in Procs :
          (/\ inv[p].pc = "CONTENT_VALIDATED"
           /\ ~inv[p].overwrite
           /\ Target(p) \in DOMAIN files)
          => /\ inv'[p].pc = "WRITE_REJECTED"
             /\ inv'[p].exit_code = 1
             /\ inv'[p].error = "ClickException"
             /\ inv'[p].msg = ExistsMsg(p)
             /\ files' = files
             /\ dirs' = dirs]_vars

\* C1 witness: a second write without overwrite has been rejected, and the
\* file holds a non-empty content other than the one it was given, written
\* for another title of the same file name.
C1_Witness ==
    \E p \in Procs :
        /\ inv[p].pc = "WRITE_REJECTED"
        /\ ~inv[p].overwrite
        /\ Target(p) \in DOMAIN files
        /\ files[Target(p)].doc # <<>>
        /\ inv[p].content.doc # <<>>
        /\ files[Target(p)] # inv[p].content
        /\ files[Target(p)].doc[1] # <<"title", inv[p].title>>

\* C2: a write with overwrite to a path that holds an entry is not rejected,
\* and when it returns the file holds exactly the content given.
C2_OverwriteReplaces ==
    [][\A p \in Procs :
          /\ (/\ inv[p].pc = "CONTENT_VALIDATED"
              /\ inv[p].overwrite
              /\ Target(p) \in DOMAIN files)
             => inv'[p].pc = "FILE_OPENED"
          /\ (inv[p].pc = "FILE_OPENED" /\ inv[p].overwrite)
             => /\ inv'[p].pc = "WRITTEN"
                /\ inv'[p].exit_code = 0
                /\ Target(p) \in DOMAIN files'
                /\ files'[Target(p)] = inv[p].content
                /\ \A f \in DOMAIN files \ {Target(p)} :
                      f \in DOMAIN files' /\ files'[f] = files[f]]_vars

\* C2 witness: a write with overwrite found an entry at the path and has
\* returned; the file holds the content given.
C2_Witness ==
    \E p \in Procs :
        /\ inv[p].pc = "WRITTEN"
        /\ inv[p].overwrite
        /\ inv[p].found
        /\ files[Target(p)] = inv[p].content

\* C3: a write of an empty or absent content fails with the "empty entry"
\* error whatever overwrite is, before any file is opened: no file is
\* created and every existing file keeps its content.
C3_EmptyContentRejected ==
    [][\A p \in Procs :
          (/\ inv[p].pc = "CONTENT_CREATED"
           /\ ~inv[p].dry_run
           /\ (inv[p].content.kind = "none" \/ inv[p].content.doc = <<>>))
          => /\ inv'[p].pc = "CONTENT_REJECTED"
             /\ inv'[p].exit_code = 1
             /\ inv'[p].error = "ClickException"
             /\ inv'[p].msg = <<"Aborting due to empty entry content">>
             /\ files' = files
             /\ dirs' = dirs]_vars

\* C3 witness: an empty text given with overwrite has been rejected while an
\* entry exists at the derived path.
C3_Witness ==
    \E p \in Procs :
        /\ inv[p].pc = "CONTENT_REJECTED"
        /\ inv[p].overwrite
        /\ inv[p].content = Text(<<>>)
        /\ Target(p) \in DOMAIN files
        /\ files[Target(p)].doc # <<>>

\* C4: when the entries directory does not exist the user is asked, and a
\* refusal ends the run with the "directory is needed" error, nothing
\* created; when it exists it is returned as is, without asking and without
\* any change to the file system.
C4_DirectoryCheck ==
    [][\A p \in Procs :
          inv[p].pc = "DIRECTORY_RESOLVED" =>
              IF Resolve(inv[p].cwd, inv[p].dirpath) \in dirs
              THEN /\ inv'[p].pc = "DIRECTORY_CONFIRMED"
                   /\ inv'[p].dirpath = inv[p].dirpath
                   /\ inv'[p].confirm = ""
                   /\ dirs' = dirs
                   /\ files' = files
              ELSE /\ inv'[p].confirm \in {"y", "n"}
                   /\ inv'[p].pc = "ABORTED" <=> inv'[p].confirm = "n"
                   /\ inv'[p].confirm = "n"
                      => /\ inv'[p].exit_code = 1
                         /\ inv'[p].error = "ClickException"
                         /\ inv'[p].msg =
                               <<"Changelog entries directory is needed to continue.">>
                         /\ dirs' = dirs
                         /\ files' = files]_vars

\* C4 witness: the user has refused to create the missing directory of a
\* repository and the run has aborted.
C4_Witness ==
    \E p \in Procs :
        /\ inv[p].pc = "ABORTED"
        /\ inv[p].confirm = "n"
        /\ inv[p].cwd = <<"/", "repo">>
        /\ Resolve(inv[p].cwd, inv[p].dirpath) \notin dirs
        /\ <<"/", "repo", "releases">> \notin dirs

\* C10: a run for which neither git query prints a path ends in a fatal
\* error once the root has been asked for: it never gets as far as a
\* resolved "releases/unreleased" directory, its check, creation or write.
C10_NoRepositoryIsFatal ==
    \A p \in Procs :
        (/\ inv[p].pc \notin {"idle", "START", "USAGE_ERROR"}
         /\ get_submodule_root_path(inv[p].cwd) = <<>>
         /\ get_root_path(inv[p].cwd) = <<>>)
        => inv[p].pc = "CRASHED"


(***************************************************************************)
(* The run as a whole, under Spec.                                         *)
(***************************************************************************)
\* the ways a run ends that reject its input
Rejections == { "USAGE_ERROR", "ABORTED", "CONTENT_REJECTED", "WRITE_REJECTED" }

\* C11: a run that ends by rejecting its input (empty title, unknown
\* category or index, directory refused, empty content, existing entry
\* without overwrite) leaves the directories and files, with their content,
\* exactly as it found them.
C11_RejectionLeavesNoTrace ==
    \A p \in Procs :
        inv[p].pc \in Rejections
            => dirs = inv[p].fs0.dirs /\ files = inv[p].fs0.files


\* the steps of a run: each position and the positions that may follow it
StepOrder ==
    { <<a, b>> : a \in {"idle"} \cup Terminal, b \in {"START", "USAGE_ERROR"} }
        \cup { <<"START", "DIRECTORY_RESOLVED">>, <<"START", "CRASHED">>,
               <<"DIRECTORY_RESOLVED", "DIRECTORY_CONFIRMED">>,
               <<"DIRECTORY_RESOLVED", "ABORTED">>,
               <<"DIRECTORY_RESOLVED", "MKDIR_FAILED">>,
               <<"DIRECTORY_CONFIRMED", "CONTENT_CREATED">>,
               <<"CONTENT_CREATED", "PRINTED">>,
               <<"CONTENT_CREATED", "CONTENT_REJECTED">>,
               <<"CONTENT_CREATED", "CONTENT_VALIDATED">>,
               <<"CONTENT_VALIDATED", "WRITE_REJECTED">>,
               <<"CONTENT_VALIDATED", "CRASHED">>,
               <<"CONTENT_VALIDATED", "FILE_OPENED">>,
               <<"FILE_OPENED", "WRITTEN">> }

\* the three rejections of the run's state machine end it with exit code 1
\* and a message of their own
RejectionMessages(p) ==
    /\ inv[p].pc = "ABORTED"
          => /\ inv[p].exit_code = 1
             /\ inv[p].msg = <<"Changelog entries directory is needed to continue.">>
    /\ inv[p].pc = "CONTENT_REJECTED"
          => /\ inv[p].exit_code = 1
             /\ inv[p].msg = <<"Aborting due to empty entry content">>
    /\ inv[p].pc = "WRITE_REJECTED"
          => /\ inv[p].exit_code = 1
             /\ inv[p].msg = ExistsMsg(p)

\* C12 as claimed: a run that has ended reports success only in WRITTEN,
\* the entry file holding the given content, whatever the flags; ABORTED,
\* WRITE_REJECTED and CONTENT_REJECTED end it with their own message.
C12_OnlyWrittenSucceeds ==
    \A p \in Procs :
        /\ (inv[p].pc \in Terminal /\ inv[p].exit_code = 0)
              => /\ inv[p].pc = "WRITTEN"
                 /\ Target(p) \in DOMAIN files
                 /\ files[Target(p)] = inv[p].content
        /\ RejectionMessages(p)

\* how a run that has ended stands
EndedRight(p) ==
    /\ inv[p].pc \in Terminal
          => (inv[p].exit_code = 0 <=> inv[p].pc \in {"WRITTEN", "PRINTED"})
    /\ inv[p].pc = "WRITTEN"
          => /\ ~inv[p].dry_run
             /\ Target(p) \in DOMAIN files
             /\ files[Target(p)] = inv[p].content
    /\ inv[p].pc = "PRINTED"
          => /\ inv[p].dry_run
             /\ files = inv[p].fs0.files
    /\ RejectionMessages(p)

\* C12, amended: the steps of a run follow one another in the order
\* directory resolved, directory confirmed or aborted, content created,
\* content validated, write; nothing follows a terminal state but a new run.
\* Without --dry-run WRITTEN (the file holds the given content) is the only
\* terminal state that reports success; with --dry-run the run ends in
\* success once the content is printed, and writes nothing.  ABORTED,
\* WRITE_REJECTED and CONTENT_REJECTED end the run with their own message.
C12_RunOrder ==
    [][\A p \in Procs :
          /\ inv'[p].pc # inv[p].pc => <<inv[p].pc, inv'[p].pc>> \in StepOrder
          /\ EndedRight(p)']_vars

\* C12 witness: a dry run has ended in success with no entry file at the
\* path its title names.
C12_Witness ==
    \E p \in Procs :
        /\ inv[p].pc = "PRINTED"
        /\ inv[p].dry_run
        /\ inv[p].exit_code = 0
        /\ inv[p].content.doc # <<>>
        /\ Target(p) \notin DOMAIN files


(***************************************************************************)
(* Two runs at once.  Each process runs the command once, in /repo, whose  *)
(* entries directory exists and holds no entry; the steps of the two runs  *)
(* interleave in any order.                                                *)
(***************************************************************************)
RaceInit ==
    /\ inv = [p \in Procs |-> Idle]
    /\ dirs = BaseDirs \cup { <<"/", "repo", "releases">>,
                             <<"/", "repo", "releases", "unreleased">> }
    /\ files = NoFiles
    /\ call = NoCall
    /\ ret = <<>>

RaceStart(p) ==
    /\ inv[p].pc = "idle"
    /\ Start(p)
    /\ inv'[p].cwd = <<"/", "repo">>

RaceNext ==
    \E p \in Procs :
        \/ RaceStart(p)
        \/ ResolveDir(p)
        \/ CheckDir(p)
        \/ CreateContent(p)
        \/ Echo(p)
        \/ WriteCheck(p)
        \/ WriteOpen(p)
        \/ WriteClose(p)

SpecRace == RaceInit /\ [][RaceNext]_vars

\* C13: of two concurrent runs without overwrite that name the same file, at
\* most one creates and writes it: once one has opened the file the other
\* never opens it, its write ends with the "already exists" error, and the
\* file holds what the first wrote and nothing of the other.
C13_OneWriterWins ==
    \A p, q \in Procs :
        (/\ p # q
         /\ ~inv[p].overwrite /\ ~inv[q].overwrite
         /\ inv[p].pc \in {"FILE_OPENED", "WRITTEN"}
         /\ inv[q].pc \in {"CONTENT_VALIDATED", "FILE_OPENED", "WRITTEN",
                           "WRITE_REJECTED", "CRASHED"}
         /\ Target(p) = Target(q))
        => /\ inv[q].pc \notin {"FILE_OPENED", "WRITTEN"}
           /\ inv[q].pc \in Terminal
                 => /\ inv[q].pc = "WRITE_REJECTED"
                    /\ inv[q].exit_code = 1
                    /\ inv[q].msg = ExistsMsg(q)
           /\ files[Target(p)] =
                 IF inv[p].pc = "WRITTEN" THEN inv[p].content ELSE Text(<<>>)

\* C13 witness: while one run holds the file open, created and not yet
\* written, the other run's write of another content has been rejected.
C13_Witness ==
    \E p, q \in Procs :
        /\ p # q
        /\ ~inv[p].overwrite /\ ~inv[q].overwrite
        /\ inv[p].pc = "FILE_OPENED"
        /\ inv[q].pc = "WRITE_REJECTED"
        /\ Target(p) = Target(q)
        /\ inv[p].content # inv[q].content

(***************************************************************************)
(* Properties of the functions, under SpecFn.                              *)
(***************************************************************************)
Min(a, b) == IF a < b THEN a ELSE b

\* C5: validation by name is case-insensitive and returns the canonical
\* lower-case key: for a key k, validate_category of k, k.upper() and
\* k.lower() all return k; a name matching no key fails with the error that
\* lists all the keys in enumeration order.
C5_NameReturnsCanonicalKey ==
    (call.fn = "validate_category" /\ Returned) =>
        /\ \A i \in DOMAIN values :
              call.arg \in { values[i], upper(values[i]), lower(values[i]) }
                  => Result.ok /\ Result.value = values[i]
        /\ (~int(call.arg).ok /\ \A i \in DOMAIN values : lower(call.arg) # values[i])
              => /\ ~Result.ok
                 /\ Result.error = "BadParameter"
                 /\ Result.msg = <<"valid options are ", values>>

ClaimIndexes == IndexInputs \cup {42}

\* C6: validation by index: the decimal string of n with 1 <= n <= N returns
\* the key of the category at enumeration position n; the decimal string of
\* any other integer fails with the range error naming the bound N (8).
C6_IndexLookup ==
    (call.fn = "validate_category" /\ Returned) =>
        \A n \in ClaimIndexes :
            call.arg = IntStr(n) =>
                IF 1 <= n /\ n <= Len(CategoryChange)
                THEN Result.ok /\ Result.value = values[n]
                ELSE /\ ~Result.ok
                     /\ Result.error = "BadParameter"
                     /\ Result.msg = <<"please select an index between 1 and ", 8>>

\* C6 witness: the index "42" has been rejected with the range error.
C6_Witness ==
    /\ call.fn = "validate_category" /\ Returned
    /\ call.arg = <<"4", "2">>
    /\ ~Result.ok
    /\ Result.msg[2] = Len(CategoryChange)

\* C7: a title with non-white-space content is returned with its leading and
\* trailing white space removed; an empty title or one of white space and
\* control characters only is rejected as empty.
C7_TitleTrimmed ==
    (call.fn = "validate_title" /\ Returned) =>
        IF \E i \in DOMAIN call.arg : call.arg[i] \notin Whitespace
        THEN Result.ok /\ Result.value = strip(call.arg, Whitespace)
        ELSE /\ ~Result.ok
             /\ Result.error = "BadParameter"
             /\ Result.msg = <<"title cannot be empty">>

\* the character of the file name that a character of the title becomes
NameChar(c) == IF c = " " THEN "-" ELSE LowerChar(c)

C9_RootPath ==
    (call.fn = "root_path" /\ Returned) =>
        /\ Result.ok
        /\ Result.value = IF call.arg[1] # <<>> THEN call.arg[1] ELSE call.arg[2]

====
